---- MODULE Spec2Model ----
(***************************************************************************)
(* Model of the LDAP service of schulcloud-server                          *)
(* (src/services/ldap/index.js): the cache of client handles, the bind     *)
(* and search conversations with the directory server, and the promise     *)
(* outcome of each service call; of the before-hooks of the submissions    *)
(* service (src/services/homework/hooks/submissions.js); and of the        *)
(* before-hooks of the WOPI service.                                       *)
(***************************************************************************)
EXTENDS Integers, Sequences, FiniteSets, TLC

\* clients: this.clients, as pairs <<config._id, client>>
\* handles: the clients made by ldap.createClient, in order of creation
\* calls:   the service calls made so far, each with its promise
VARIABLES clients, handles, calls

\* strategyCalls: the calls the LDAP service made to the LDAP strategy
VARIABLES strategyCalls

\* files: the file documents of the file storage, by file id
\* wopi:  the WOPI request handled last, with the outcome of its before-hooks
VARIABLES files, wopi

\* store: the stored submissions, by position
\* hook:  the submissions request handled last, with the outcome of its before-hooks
VARIABLES store, hook

ldapVars == <<clients, handles, calls>>

\* the state outside the LDAP connection cache and its calls
others == <<strategyCalls, files, wopi, store, hook>>

vars == <<clients, handles, calls, strategyCalls, files, wopi, store, hook>>

(* ---------------- bounds ---------------- *)

MaxCalls == 2

MaxEntries == 2

(* ---------------- configurations ---------------- *)

\* _id = 0 stands for an absent _id, url = "" for an absent url,
\* present = FALSE for a null/undefined config object.
ConfigA ==
    [present |-> TRUE, _id |-> 1, url |-> "ldap://a", searchUser |-> "admin",
     rootPath |-> "dc=a", searchUserPassword |-> "pA"]

ConfigB ==
    [present |-> TRUE, _id |-> 2, url |-> "ldap://b", searchUser |-> "admin",
     rootPath |-> "dc=b", searchUserPassword |-> "pB"]

ConfigNoId ==
    [present |-> TRUE, _id |-> 0, url |-> "ldap://c", searchUser |-> "admin",
     rootPath |-> "dc=c", searchUserPassword |-> "pC"]

ConfigNoUrl ==
    [present |-> TRUE, _id |-> 3, url |-> "", searchUser |-> "admin",
     rootPath |-> "dc=d", searchUserPassword |-> "pD"]

ConfigNull ==
    [present |-> FALSE, _id |-> 0, url |-> "", searchUser |-> "",
     rootPath |-> "", searchUserPassword |-> ""]

Configs == {ConfigA, ConfigB, ConfigNoId, ConfigNoUrl, ConfigNull}

\* the configurations each operation is exercised with
SearchConfigs == {ConfigA, ConfigB}

AuthConfigs == {ConfigA, ConfigNoUrl}

DisconnectConfigs == {ConfigA, ConfigNoId, ConfigNull}

\* distinguished names are sequences of string pieces; <<>> is the empty string
EmptyName == <<>>

AliceName == <<"uid=", "alice", ",cn=users,", "dc=a">>

Usernames == {EmptyName, AliceName}

Passwords == {"", "pwAlice", "wrong"}

\* the k-th entry the server emits for a search
Entry(k) == [dn |-> k, object |-> [uid |-> k]]

(* ---------------- promise outcomes ---------------- *)

Pending == [kind |-> "pending", val |-> <<>>]

Resolved(v) == [kind |-> "resolved", val |-> <<v>>]

Rejected(e) == [kind |-> "rejected", val |-> <<e>>]

Thrown(e) == [kind |-> "thrown", val |-> <<e>>]

\* a promise settles once: later resolve/reject calls are ignored
Settle(outcome, new) == IF outcome.kind = "pending" THEN new ELSE outcome

(* ---------------- records ---------------- *)

NoStream == [state |-> "none", emitted |-> <<>>, errored |-> FALSE, cbErr |-> FALSE, status |-> -1]

NewCall(op, cfg, user, pass) ==
    [op |-> op, cfg |-> cfg, user |-> user, pass |-> pass, pc |-> "done",
     h |-> 0, userH |-> 0, searchH |-> 0, base |-> <<>>, options |-> "none",
     stream |-> NoStream, objects |-> <<>>, inner |-> Pending, outcome |-> Pending]

NewHandle(cfg, username, password) ==
    [cfg |-> cfg, url |-> cfg.url, user |-> username, pass |-> password,
     state |-> "binding", connected |-> FALSE, unbound |-> FALSE]

(* ---------------- the cache: this.clients ---------------- *)

\* this.clients[key], 0 when the key has no entry
Lookup(key) ==
    IF \E p \in clients : p[1] = key
    THEN (CHOOSE p \in clients : p[1] = key)[2]
    ELSE 0

CacheHitNever(cfg) == FALSE

CacheHitIgnoresConnected(cfg) == Lookup(cfg._id) # 0

\* client && client.connected
CacheHit(cfg) ==
    /\ Lookup(cfg._id) # 0
    /\ handles[Lookup(cfg._id)].connected

AddClientKeepFirst(cfg, h) ==
    IF Lookup(cfg._id) # 0 THEN clients ELSE clients \cup {<<cfg._id, h>>}

AddClientWrongKey(cfg, h) ==
    {p \in clients : p[1] # 0} \cup {<<0, h>>}

\* this.clients[config._id] = client
AddClient(cfg, h) ==
    {p \in clients : p[1] # cfg._id} \cup {<<cfg._id, h>>}

(* ---------------- _connect ---------------- *)

\* `uid=${config.searchUser},cn=users,${config.rootPath}`
DefaultUsername(cfg) == <<"uid=", cfg.searchUser, ",cn=users,", cfg.rootPath>>

\* username = username || default
ConnectUsername(cfg, username) ==
    IF username = EmptyName THEN DefaultUsername(cfg) ELSE username

\* password = password || config.searchUserPassword
ConnectPassword(cfg, password) ==
    IF password = "" THEN cfg.searchUserPassword ELSE password

\* reading a property of a null config throws before the promise exists
ConnectThrows(cfg, username, password) ==
    ~cfg.present /\ (username = EmptyName \/ password = "")

\* the synchronous part of _connect; created: whether createClient hands out
\* a client when the url is missing (library-dependent)
Connect(cfg, username, password, hs, created) ==
    IF ConnectThrows(cfg, username, password)
    THEN [thrown |-> TRUE, rejected |-> FALSE, h |-> 0, handles |-> hs]
    ELSE IF ~(cfg.present /\ cfg.url # "")
    THEN IF cfg.present /\ created
         THEN [thrown |-> FALSE, rejected |-> TRUE, h |-> Len(hs) + 1,
               handles |-> Append(hs, NewHandle(cfg, ConnectUsername(cfg, username),
                                                ConnectPassword(cfg, password)))]
         ELSE [thrown |-> FALSE, rejected |-> TRUE, h |-> 0, handles |-> hs]
    ELSE [thrown |-> FALSE, rejected |-> FALSE, h |-> Len(hs) + 1,
          handles |-> Append(hs, NewHandle(cfg, ConnectUsername(cfg, username),
                                           ConnectPassword(cfg, password)))]

\* the accounts the directory server at a url knows
ServerAccounts(url) ==
    {<<DefaultUsername(c), c.searchUserPassword>> : c \in {d \in Configs : d.present /\ d.url = url}}
        \cup {<<AliceName, "pwAlice">>}

ServerAccepts(hd) == <<hd.user, hd.pass>> \in ServerAccounts(hd.url)

(* ---------------- searchObject / searchCollection ---------------- *)

SearchObjectThenLast(inner) ==
    IF inner.kind = "resolved"
    THEN IF Len(inner.val[1]) > 0
         THEN Resolved(inner.val[1][Len(inner.val[1])])
         ELSE Rejected("Object not found")
    ELSE inner

\* the .then of searchObject applied to the outcome of searchCollection
SearchObjectThen(inner) ==
    IF inner.kind = "resolved"
    THEN IF Len(inner.val[1]) > 0
         THEN Resolved(inner.val[1][1])
         ELSE Rejected("Object not found")
    ELSE inner

\* what the caller's promise is, given the promise of _getClient/searchCollection
Outer(op, inner) ==
    IF op \in {"searchOne", "authenticate"} THEN SearchObjectThen(inner) ELSE inner

SetInner(r, new) ==
    LET i == Settle(r.inner, new)
    IN [r EXCEPT !.inner = i,
                 !.outcome = IF i.kind = "pending" THEN @ ELSE Settle(@, Outer(r.op, i))]

OnEntryPrepend(r, entry) == [r EXCEPT !.objects = <<entry.object>> \o @]

\* res.on('searchEntry'): objects.push(entry.object)
OnEntry(r, entry) == [r EXCEPT !.objects = Append(@, entry.object)]

OnErrorIgnored(r, err) == r

\* res.on('error', reject)
OnError(r, err) == SetInner(r, Rejected(err))

\* res.on('end'): resolve(objects) when status is 0, then reject
OnEnd(r, status) ==
    LET r1 == IF status = 0 THEN SetInner(r, Resolved(r.objects)) ELSE r
    IN SetInner(r1, Rejected("LDAP result code != 0"))

(* ---------------- _getClient and its continuations ---------------- *)

\* what runs once _getClient has produced client h
AfterGetClient(r, h) ==
    IF r.op = "getConnection" THEN [SetInner(r, Resolved(h)) EXCEPT !.pc = "done"]
    ELSE IF r.op = "disconnect" THEN [r EXCEPT !.pc = "done"]
    ELSE [r EXCEPT !.pc = "search", !.searchH = h, !.stream.state = "sent"]

\* _getClient(r.cfg) called on behalf of call r
EnterGetClient(r, hs, created) ==
    IF ~r.cfg.present
    THEN [call |-> [r EXCEPT !.pc = "done", !.outcome = Settle(@, Thrown("TypeError"))],
          handles |-> hs]
    ELSE IF CacheHit(r.cfg)
    THEN [call |-> AfterGetClient(r, Lookup(r.cfg._id)), handles |-> hs]
    ELSE LET cr == Connect(r.cfg, EmptyName, "", hs, created)
         IN IF cr.rejected
            THEN [call |-> [SetInner(r, Rejected("Invalid URL in config object."))
                              EXCEPT !.pc = "done", !.h = cr.h],
                  handles |-> cr.handles]
            ELSE [call |-> [r EXCEPT !.pc = "svcBind", !.h = cr.h],
                  handles |-> cr.handles]

(* ---------------- initial state ---------------- *)

\* a request slot before any request was handled
NoRequest == [method |-> "none"]

Init ==
    /\ clients = {}
    /\ handles = <<>>
    /\ calls = <<>>
    /\ strategyCalls = <<>>
    /\ files = <<>>
    /\ wopi = NoRequest
    /\ store = <<>>
    /\ hook = NoRequest

CanStart == Len(calls) < MaxCalls

(* ---------------- service calls ---------------- *)

\* _getClient(config) called directly
GetConnection(cfg, created) ==
    /\ CanStart
    /\ LET res == EnterGetClient(NewCall("getConnection", cfg, EmptyName, ""), handles, created)
       IN /\ calls' = Append(calls, res.call)
          /\ handles' = res.handles
    /\ UNCHANGED <<clients, others>>

\* searchCollection(config, searchString, options)
SearchMany(cfg, created) ==
    /\ CanStart
    /\ LET r == [NewCall("searchMany", cfg, EmptyName, "") EXCEPT
                    !.base = <<cfg.rootPath>>, !.options = "caller"]
           res == EnterGetClient(r, handles, created)
       IN /\ calls' = Append(calls, res.call)
          /\ handles' = res.handles
    /\ UNCHANGED <<clients, others>>

\* searchObject(config, searchString, options)
SearchOne(cfg, created) ==
    /\ CanStart
    /\ LET r == [NewCall("searchOne", cfg, EmptyName, "") EXCEPT
                    !.base = <<cfg.rootPath>>, !.options = "caller"]
           res == EnterGetClient(r, handles, created)
       IN /\ calls' = Append(calls, res.call)
          /\ handles' = res.handles
    /\ UNCHANGED <<clients, others>>

\* authenticate(system, qualifiedUsername, password), config = system.ldapConfig
Authenticate(cfg, username, password, created) ==
    /\ CanStart
    /\ LET r == NewCall("authenticate", cfg, username, password)
           cr == Connect(cfg, username, password, handles, created)
       IN /\ calls' = Append(calls,
                IF cr.thrown THEN [r EXCEPT !.outcome = Thrown("TypeError")]
                ELSE IF cr.rejected
                THEN [r EXCEPT !.outcome = Rejected("Invalid URL in config object."),
                               !.userH = cr.h]
                ELSE [r EXCEPT !.pc = "authBind", !.userH = cr.h])
          /\ handles' = cr.handles
    /\ UNCHANGED <<clients, others>>

\* _disconnect(config): the executor rejects on a config without _id, then
\* calls unbind on the promise _getClient returns, which is not a function
Disconnect(cfg, created) ==
    /\ CanStart
    /\ LET o1 == IF ~(cfg.present /\ cfg._id # 0)
                 THEN Rejected("Invalid config object") ELSE Pending
           r == [NewCall("disconnect", cfg, EmptyName, "") EXCEPT
                    !.outcome = Settle(o1, Rejected("TypeError"))]
           res == EnterGetClient(r, handles, created)
       IN /\ calls' = Append(calls, res.call)
          /\ handles' = res.handles
    /\ UNCHANGED <<clients, others>>

(* ---------------- the server's answers ---------------- *)

AuthBindFailedSearches(r) ==
    [r EXCEPT !.pc = "search", !.searchH = r.userH, !.stream.state = "sent"]

SvcBindFailedResolves(r) ==
    [SetInner(r, Resolved(r.h)) EXCEPT !.pc = "done"]

\* the bind of _getClient failed: reject(NotAuthenticated), _addClient is skipped
SvcBindFailed(r) ==
    [SetInner(r, Rejected("NotAuthenticated")) EXCEPT !.pc = "done"]

\* the bind of authenticate failed: reject(NotAuthenticated), the .then is skipped
AuthBindFailed(r) ==
    [r EXCEPT !.pc = "done", !.outcome = Settle(@, Rejected("NotAuthenticated"))]

Waiting(c) == c \in 1..Len(calls) /\ calls[c].pc \in {"authBind", "svcBind"}

BindHandle(c) == IF calls[c].pc = "authBind" THEN calls[c].userH ELSE calls[c].h

\* client.bind calls back without error: resolve(client)
BindOk(c) ==
    /\ Waiting(c)
    /\ ServerAccepts(handles[BindHandle(c)])
    /\ UNCHANGED others
    /\ LET h == BindHandle(c)
           hs == [handles EXCEPT ![h].state = "bound", ![h].connected = TRUE]
       IN IF calls[c].pc = "svcBind"
          THEN /\ clients' = AddClient(calls[c].cfg, h)
               /\ handles' = hs
               /\ calls' = [calls EXCEPT ![c] = AfterGetClient(@, h)]
          ELSE LET r == [calls[c] EXCEPT !.base = calls[c].user, !.options = "sub"]
                   res == EnterGetClient(r, hs, FALSE)
               IN /\ calls' = [calls EXCEPT ![c] = res.call]
                  /\ handles' = res.handles
                  /\ UNCHANGED clients

\* client.bind calls back with an error: reject(NotAuthenticated)
BindErr(c) ==
    /\ Waiting(c)
    /\ handles' = [handles EXCEPT ![BindHandle(c)].state = "rejected"]
    /\ calls' = [calls EXCEPT ![c] =
            IF @.pc = "svcBind"
            THEN SvcBindFailed(@)
            ELSE AuthBindFailed(@)]
    /\ UNCHANGED <<clients, others>>

\* the callback of client.search runs; with err it rejects and then calls
\* res.on on the res the library did not supply, so no handler is registered
SearchCallback(c, err) ==
    /\ c \in 1..Len(calls)
    /\ calls[c].pc = "search"
    /\ calls[c].stream.state = "sent"
    /\ calls' = [calls EXCEPT ![c] =
            IF err
            THEN [SetInner(@, Rejected("ldapError")) EXCEPT
                     !.stream.cbErr = TRUE,
                     !.stream.state = "closed",
                     !.pc = "done"]
            ELSE [@ EXCEPT !.stream.state = "open"]]
    /\ UNCHANGED <<clients, handles, others>>

Open(c) == c \in 1..Len(calls) /\ calls[c].pc = "search" /\ calls[c].stream.state = "open"

\* res emits searchEntry
SearchEntry(c) ==
    /\ Open(c)
    /\ Len(calls[c].stream.emitted) < MaxEntries
    /\ LET e == Entry(Len(calls[c].stream.emitted) + 1)
       IN calls' = [calls EXCEPT ![c] =
                        [OnEntry(@, e) EXCEPT !.stream.emitted = Append(@, e)]]
    /\ UNCHANGED <<clients, handles, others>>

\* res emits error
SearchError(c) ==
    /\ Open(c)
    /\ ~calls[c].stream.errored
    /\ calls' = [calls EXCEPT ![c] =
                    [OnError(@, "ldapError") EXCEPT !.stream.errored = TRUE]]
    /\ UNCHANGED <<clients, handles, others>>

\* res emits end with the result status
SearchEnd(c, status) ==
    /\ Open(c)
    /\ calls' = [calls EXCEPT ![c] =
                    [OnEnd(@, status) EXCEPT !.stream.state = "ended",
                                             !.stream.status = status,
                                             !.pc = "done"]]
    /\ UNCHANGED <<clients, handles, others>>

\* the connection of a cached client goes down: client.connected turns false
Drop(h) ==
    /\ h \in 1..Len(handles)
    /\ handles[h].connected
    /\ \E p \in clients : p[2] = h
    /\ handles' = [handles EXCEPT ![h].connected = FALSE]
    /\ UNCHANGED <<clients, calls, others>>

Statuses == {0, 1}

Next ==
    \/ \E cfg \in Configs, created \in BOOLEAN : GetConnection(cfg, created)
    \/ \E cfg \in SearchConfigs : SearchMany(cfg, FALSE)
    \/ \E cfg \in SearchConfigs : SearchOne(cfg, FALSE)
    \/ \E cfg \in AuthConfigs, u \in Usernames, p \in Passwords, created \in BOOLEAN :
            Authenticate(cfg, u, p, created)
    \/ \E cfg \in DisconnectConfigs : Disconnect(cfg, FALSE)
    \/ \E c \in 1..MaxCalls : BindOk(c)
    \/ \E c \in 1..MaxCalls : BindErr(c)
    \/ \E c \in 1..MaxCalls, err \in BOOLEAN : SearchCallback(c, err)
    \/ \E c \in 1..MaxCalls : SearchEntry(c)
    \/ \E c \in 1..MaxCalls : SearchError(c)
    \/ \E c \in 1..MaxCalls, status \in Statuses : SearchEnd(c, status)
    \/ \E h \in 1..(2 * MaxCalls) : Drop(h)

Spec == Init /\ [][Next]_vars

\* the service used for getConnection only
NextConn ==
    \/ \E cfg \in Configs, created \in BOOLEAN : GetConnection(cfg, created)
    \/ \E c \in 1..MaxCalls : BindOk(c)
    \/ \E c \in 1..MaxCalls : BindErr(c)
    \/ \E h \in 1..(2 * MaxCalls) : Drop(h)

SpecConn == Init /\ [][NextConn]_vars

(* ---------------- error taxonomy ---------------- *)

\* the class of a rejection value in the service's error taxonomy
ErrorClass(e) ==
    IF e \in {"Invalid URL in config object.", "Invalid config object"} THEN "ConfigurationError"
    ELSE IF e = "NotAuthenticated" THEN "AuthenticationError"
    ELSE IF e = "Object not found" THEN "NotFoundError"
    ELSE IF e \in {"LDAP result code != 0", "ldapError"} THEN "DirectoryError"
    ELSE "TypeError"

Failed(o, class) == o.kind = "rejected" /\ ErrorClass(o.val[1]) = class

CallIds == 1..Len(calls)

Objects(emitted) == [k \in 1..Len(emitted) |-> emitted[k].object]

BindsFor(cfg) == {h \in 1..Len(handles) : handles[h].cfg = cfg}

Started(op) == Len(calls') = Len(calls) + 1 /\ calls'[Len(calls')].op = op

(* ---------------- claims ---------------- *)

\* C1: when the only call made so far for a configuration is a getConnection
\* that resolved with a handle still reporting connected, a second
\* getConnection for it resolves with that same handle and binds nothing:
\* one bind in total.
C1_SequentialReuse ==
    [][\A i \in CallIds :
        LET cfg == calls[i].cfg
        IN ( /\ calls[i].op = "getConnection"
             /\ \A k \in CallIds : k # i => calls[k].cfg # cfg
             /\ calls[i].outcome.kind = "resolved"
             /\ handles[calls[i].outcome.val[1]].connected
             /\ Started("getConnection")
             /\ calls'[Len(calls')].cfg = cfg )
           => /\ calls'[Len(calls')].outcome.kind = "resolved"
              /\ calls'[Len(calls')].outcome.val = calls[i].outcome.val
              /\ handles' = handles
              /\ Cardinality(BindsFor(cfg)) = 1]_vars

C1_Witness ==
    /\ Len(calls) >= 2
    /\ calls[1].op = "getConnection" /\ calls[2].op = "getConnection"
    /\ calls[1].cfg = ConfigA /\ calls[2].cfg = ConfigA
    /\ calls[1].outcome.kind = "resolved" /\ calls[2].outcome.kind = "resolved"
    /\ calls[1].outcome.val = calls[2].outcome.val
    /\ Cardinality(BindsFor(ConfigA)) = 1

\* C2: two getConnection calls in flight for one configuration bind two
\* distinct handles; each resolves with its own handle, and the bind that
\* completes takes the cache slot, so the last one to complete holds it.
C2_ConcurrentBinds ==
    /\ [](\A i \in CallIds, j \in CallIds :
            ( /\ i # j
              /\ calls[i].op = "getConnection" /\ calls[j].op = "getConnection"
              /\ calls[i].cfg = calls[j].cfg
              /\ calls[i].pc = "svcBind" /\ calls[j].pc = "svcBind" )
            => /\ calls[i].h # calls[j].h
               /\ handles[calls[i].h].state = "binding"
               /\ handles[calls[j].h].state = "binding")
    /\ [][\A c \in CallIds :
            ( /\ calls[c].op = "getConnection"
              /\ calls[c].pc = "svcBind"
              /\ handles'[calls[c].h].state = "bound" )
            => /\ calls'[c].outcome = Resolved(calls[c].h)
               /\ \A p \in clients' : p[1] = calls[c].cfg._id => p[2] = calls[c].h
               /\ <<calls[c].cfg._id, calls[c].h>> \in clients']_vars

C2_Witness ==
    /\ Len(calls) >= 2
    /\ calls[1].op = "getConnection" /\ calls[2].op = "getConnection"
    /\ calls[1].cfg = ConfigA /\ calls[2].cfg = ConfigA
    /\ calls[1].outcome = Resolved(1) /\ calls[2].outcome = Resolved(2)
    /\ clients = {<<1, 1>>}

\* C3: the cache holds at most one handle per identifier, and the handle
\* under an identifier was bound for the configuration with that identifier.
C3_CacheKeyedByConfig ==
    /\ \A p \in clients, q \in clients : p[1] = q[1] => p = q
    /\ \A p \in clients :
        /\ p[2] \in 1..Len(handles)
        /\ handles[p[2]].cfg._id = p[1]
        /\ handles[p[2]].url = handles[p[2]].cfg.url

C3_Witness ==
    /\ Cardinality(clients) = 2
    /\ \E c \in CallIds : calls[c].op = "authenticate" /\ calls[c].searchH # 0
    /\ \E c \in CallIds : calls[c].op = "searchMany" /\ calls[c].cfg = ConfigB

\* C4: a search whose stream carried n entries and then end, with no error,
\* resolves with exactly those n entries in emission order when the status
\* is 0 and fails with a DirectoryError otherwise.
C4_SearchManyResult ==
    \A c \in CallIds :
        ( /\ calls[c].op = "searchMany"
          /\ calls[c].stream.state = "ended"
          /\ ~calls[c].stream.errored )
        => IF calls[c].stream.status = 0
           THEN /\ calls[c].outcome.kind = "resolved"
                /\ calls[c].outcome.val[1] = Objects(calls[c].stream.emitted)
           ELSE Failed(calls[c].outcome, "DirectoryError")

C4_Witness ==
    \E c \in CallIds, d \in CallIds :
        /\ calls[c].op = "searchMany" /\ calls[d].op = "searchMany"
        /\ calls[c].stream.status = 0 /\ calls[c].outcome.kind = "resolved"
        /\ calls[c].outcome.val[1] = <<Entry(1).object, Entry(2).object>>
        /\ calls[d].stream.status = 1 /\ Len(calls[d].stream.emitted) = 2
        /\ Failed(calls[d].outcome, "DirectoryError")

\* C5: a searchMany outcome, once settled, never changes; it is resolved
\* only after an end event with status 0 on a stream without error, and
\* after a callback error or an error event it is a DirectoryError, also
\* when end with status 0 follows.
C5_NoPartialResults ==
    /\ [](\A c \in CallIds :
            calls[c].op = "searchMany" =>
                /\ calls[c].outcome.kind = "resolved" =>
                        /\ calls[c].stream.state = "ended"
                        /\ calls[c].stream.status = 0
                        /\ ~calls[c].stream.errored
                        /\ ~calls[c].stream.cbErr
                /\ (calls[c].stream.errored \/ calls[c].stream.cbErr) =>
                        Failed(calls[c].outcome, "DirectoryError"))
    /\ [][\A c \in CallIds :
            (calls[c].op = "searchMany" /\ calls[c].outcome.kind # "pending") =>
                /\ calls'[c].outcome.kind = calls[c].outcome.kind
                /\ calls'[c].outcome.val = calls[c].outcome.val]_vars

C5_Witness ==
    \E c \in CallIds :
        /\ calls[c].op = "searchMany"
        /\ calls[c].stream.errored
        /\ calls[c].stream.state = "ended" /\ calls[c].stream.status = 0
        /\ Len(calls[c].objects) = 2
        /\ Failed(calls[c].outcome, "DirectoryError")

\* C6: authenticate binds with exactly the username and password of the
\* caller, never with the service account of the configuration, so it
\* resolves only for a pair the server accepts.
C6_CallerCredentialsOnly ==
    \A c \in CallIds :
        calls[c].op = "authenticate" =>
            /\ calls[c].userH # 0 =>
                    /\ handles[calls[c].userH].user = calls[c].user
                    /\ handles[calls[c].userH].pass = calls[c].pass
            /\ calls[c].outcome.kind = "resolved" =>
                    <<calls[c].user, calls[c].pass>> \in ServerAccounts(calls[c].cfg.url)

\* C7: when the server rejects the bind of authenticate, the call fails
\* with an AuthenticationError, no search is issued and the cache is left
\* as it was; starting the call does not touch the cache either.
C7_RejectedBindLeavesCache ==
    [][/\ Started("authenticate") => clients' = clients
       /\ \A c \in CallIds :
            ( /\ calls[c].op = "authenticate"
              /\ calls[c].pc = "authBind"
              /\ handles'[calls[c].userH].state = "rejected" )
            => /\ Failed(calls'[c].outcome, "AuthenticationError")
               /\ calls'[c].pc = "done"
               /\ calls'[c].searchH = 0
               /\ calls'[c].stream = NoStream
               /\ calls'[c].h = 0
               /\ Len(handles') = Len(handles)
               /\ clients' = clients]_vars

C7_Witness ==
    \E c \in CallIds :
        /\ calls[c].op = "authenticate"
        /\ calls[c].user = AliceName /\ calls[c].pass = "wrong"
        /\ calls[c].userH # 0
        /\ handles[calls[c].userH].state = "rejected"
        /\ Failed(calls[c].outcome, "AuthenticationError")
        /\ clients = {<<1, 1>>}

\* C8 as stated: the search of authenticate runs on the handle of its own
\* bind, and the call makes no service-account bind.
C8_SearchOnOwnHandle ==
    \A c \in CallIds :
        (calls[c].op = "authenticate" /\ calls[c].userH # 0) =>
            /\ calls[c].h = 0
            /\ calls[c].searchH # 0 => calls[c].searchH = calls[c].userH

\* C8 amended: the handle of authenticate's own bind is never cached and
\* never searched on; once that bind succeeds the search goes through
\* _getClient: on the cached handle when it reports connected (cache and
\* handles untouched), otherwise after a new service-account bind whose
\* handle is written to the cache under the configuration's identifier.
C8_SearchThroughCache ==
    /\ [](\A c \in CallIds :
            (calls[c].op = "authenticate" /\ calls[c].userH # 0) =>
                /\ \A p \in clients : p[2] # calls[c].userH
                /\ calls[c].searchH # 0 =>
                    /\ calls[c].searchH # calls[c].userH
                    /\ handles[calls[c].userH].state = "bound"
                    /\ handles[calls[c].searchH].user = DefaultUsername(calls[c].cfg)
                    /\ handles[calls[c].searchH].pass = calls[c].cfg.searchUserPassword
                    /\ calls[c].base = calls[c].user)
    /\ [][\A c \in CallIds :
            calls[c].op = "authenticate" =>
                /\ (calls[c].pc = "authBind" /\ handles'[calls[c].userH].state = "bound") =>
                    /\ clients' = clients
                    /\ IF /\ Lookup(calls[c].cfg._id) # 0
                          /\ handles[Lookup(calls[c].cfg._id)].connected
                       THEN /\ calls'[c].searchH = Lookup(calls[c].cfg._id)
                            /\ Len(handles') = Len(handles)
                       ELSE /\ calls'[c].pc = "svcBind"
                            /\ calls'[c].searchH = 0
                            /\ calls'[c].h = Len(handles) + 1
                            /\ Len(handles') = Len(handles) + 1
                /\ (calls[c].pc = "svcBind" /\ handles'[calls[c].h].state = "bound") =>
                    /\ <<calls[c].cfg._id, calls[c].h>> \in clients'
                    /\ calls'[c].searchH = calls[c].h]_vars

C8_Witness ==
    \E c \in CallIds :
        /\ calls[c].op = "authenticate"
        /\ calls[c].user = AliceName /\ calls[c].pass = "pwAlice"
        /\ calls[c].outcome.kind = "resolved"
        /\ calls[c].h # 0
        /\ calls[c].searchH = calls[c].h
        /\ <<calls[c].cfg._id, calls[c].h>> \in clients

\* C9: searchOne resolves with the first emitted entry of a successful
\* non-empty search, fails with NotFoundError on a successful empty one,
\* and fails with the failure of the search itself when that fails.
C9_SearchOneResult ==
    \A c \in CallIds :
        calls[c].op = "searchOne" =>
            /\ ( /\ calls[c].stream.state = "ended"
                 /\ calls[c].stream.status = 0
                 /\ ~calls[c].stream.errored )
               => IF Len(calls[c].stream.emitted) > 0
                  THEN /\ calls[c].outcome.kind = "resolved"
                       /\ calls[c].outcome.val[1] = calls[c].stream.emitted[1].object
                  ELSE Failed(calls[c].outcome, "NotFoundError")
            /\ calls[c].inner.kind = "rejected" =>
                    /\ calls[c].outcome.kind = "rejected"
                    /\ calls[c].outcome.val = calls[c].inner.val
                    /\ ~Failed(calls[c].outcome, "NotFoundError")

C9_Witness ==
    \E c \in CallIds, d \in CallIds :
        /\ calls[c].op = "searchOne" /\ calls[d].op = "searchOne"
        /\ Len(calls[c].stream.emitted) = 2
        /\ calls[c].outcome = Resolved(Entry(1).object)
        /\ calls[d].stream.status = 0 /\ calls[d].stream.emitted = <<>>
        /\ Failed(calls[d].outcome, "NotFoundError")

\* C10: disconnect on a configuration whose cached handle is connected
\* unbinds that handle and does not fail; without a configuration or an
\* identifier it is rejected with a ConfigurationError and touches no handle.
C10_DisconnectUnbinds ==
    [][Started("disconnect") =>
        LET r == calls'[Len(calls')]
            cfg == r.cfg
        IN IF cfg.present /\ cfg._id # 0
           THEN (Lookup(cfg._id) # 0 /\ handles[Lookup(cfg._id)].connected) =>
                    /\ handles'[Lookup(cfg._id)].unbound
                    /\ r.outcome.kind \notin {"rejected", "thrown"}
           ELSE /\ Failed(r.outcome, "ConfigurationError")
                /\ handles' = handles]_vars

\* C11: getConnection without a configuration or without a url is rejected
\* with a ConfigurationError (a rejection, not a thrown exception), attempts
\* no bind and leaves the cache as it was.
C11_InvalidConfigRejected ==
    [][( /\ Started("getConnection")
         /\ ~(calls'[Len(calls')].cfg.present /\ calls'[Len(calls')].cfg.url # "") )
       => /\ Failed(calls'[Len(calls')].outcome, "ConfigurationError")
          /\ handles' = handles
          /\ clients' = clients]_vars

\* C12: when the server rejects the service-account bind, getConnection
\* fails with an AuthenticationError, binds no second time and leaves the
\* cache as it was; no handle whose bind failed is ever cached.
C12_RejectedBindNotCached ==
    /\ [](\A p \in clients : handles[p[2]].state = "bound")
    /\ [][\A c \in CallIds :
            ( /\ calls[c].op = "getConnection"
              /\ calls[c].pc = "svcBind"
              /\ handles'[calls[c].h].state = "rejected" )
            => /\ Failed(calls'[c].outcome, "AuthenticationError")
               /\ calls'[c].pc = "done"
               /\ Len(handles') = Len(handles)
               /\ clients' = clients]_vars

C12_Witness ==
    /\ Len(calls) >= 2
    /\ calls[1].op = "getConnection" /\ calls[2].op = "getConnection"
    /\ calls[1].cfg = ConfigA /\ calls[2].cfg = ConfigA
    /\ calls[1].outcome.kind = "resolved"
    /\ Failed(calls[2].outcome, "AuthenticationError")
    /\ Len(handles) = 2
    /\ handles[2].state = "rejected"
    /\ clients = {<<1, 1>>}

\* C13: a getConnection that finds the cached handle not connected starts
\* a new service-account bind; when that bind succeeds its handle replaces
\* the cache entry and is the one returned; a handle is reporting connected
\* whenever getConnection resolves with it.
C13_StaleHandleReplaced ==
    [][/\ ( /\ Started("getConnection")
            /\ calls'[Len(calls')].cfg.present
            /\ calls'[Len(calls')].cfg.url # ""
            /\ Lookup(calls'[Len(calls')].cfg._id) # 0
            /\ ~handles[Lookup(calls'[Len(calls')].cfg._id)].connected )
          => /\ calls'[Len(calls')].pc = "svcBind"
             /\ calls'[Len(calls')].outcome.kind = "pending"
             /\ calls'[Len(calls')].h = Len(handles) + 1
             /\ Len(handles') = Len(handles) + 1
             /\ handles'[Len(handles')].user = DefaultUsername(calls'[Len(calls')].cfg)
             /\ handles'[Len(handles')].pass = calls'[Len(calls')].cfg.searchUserPassword
       /\ \A c \in 1..Len(calls') :
            ( /\ calls'[c].op = "getConnection"
              /\ calls'[c].outcome.kind = "resolved"
              /\ (c \in CallIds => calls[c].outcome.kind = "pending") )
            => /\ handles'[calls'[c].outcome.val[1]].connected
               /\ <<calls'[c].cfg._id, calls'[c].outcome.val[1]>> \in clients']_vars

C13_Witness ==
    /\ Len(calls) >= 2
    /\ calls[1].op = "getConnection" /\ calls[2].op = "getConnection"
    /\ calls[1].cfg = ConfigA /\ calls[2].cfg = ConfigA
    /\ calls[1].outcome = Resolved(1) /\ calls[2].outcome = Resolved(2)
    /\ handles[1].state = "bound" /\ ~handles[1].connected
    /\ clients = {<<1, 2>>}

----------------------------------------------------------------------------
\* Teams and LDAP groups (index.js:207-236).  The strategy object comes from
\* ./strategies; the model records what it is called with in strategyCalls.

MaxTeamCalls == 2

Digits == <<"0", "1", "2", "3", "4", "5", "6", "7", "8", "9">>

\* String(n) as the template literal `${team._id}` computes it.
RECURSIVE TemplateString(_)
TemplateString(n) ==
    IF n < 10 THEN Digits[n + 1]
    ELSE TemplateString(n \div 10) \o Digits[(n % 10) + 1]

TeamIds == {1, 2, 10}
TeamNames == {"", "Team A", "schulcloud-1"}
Teams == [_id : TeamIds, name : TeamNames]
Users == {"u1", "u2"}

TeamToGroupByName(team) ==
    [name |-> "schulcloud-" \o team.name, description |-> team.name]

_teamToGroup(team) ==
    [name |-> "schulcloud-" \o TemplateString(team._id), description |-> team.name]

StrategyCall(method, cfg, user, team) ==
    [method |-> method, cfg |-> cfg, user |-> user,
     group |-> _teamToGroup(team), team |-> team]

AddUserToTeam(cfg, user, team) ==
    /\ Len(strategyCalls) < MaxTeamCalls
    /\ strategyCalls' =
         Append(strategyCalls, StrategyCall("addUserToGroup", cfg, user, team))
    /\ UNCHANGED <<ldapVars, files, wopi, store, hook>>

RemoveUserFromTeam(cfg, user, team) ==
    /\ Len(strategyCalls) < MaxTeamCalls
    /\ strategyCalls' =
         Append(strategyCalls, StrategyCall("removeUserFromGroup", cfg, user, team))
    /\ UNCHANGED <<ldapVars, files, wopi, store, hook>>

NextTeam ==
    \/ \E cfg \in SearchConfigs, user \in Users, team \in Teams :
         AddUserToTeam(cfg, user, team)
    \/ \E cfg \in SearchConfigs, user \in Users, team \in Teams :
         RemoveUserFromTeam(cfg, user, team)

SpecTeam == Init /\ [][NextTeam]_vars

GroupNames == (1 :> "schulcloud-1") @@ (2 :> "schulcloud-2") @@ (10 :> "schulcloud-10")

\* C14: addUserToGroup and removeUserFromGroup receive a group whose name is
\* 'schulcloud-' followed by the team's id and whose description is the
\* team's name; teams with the same id yield the same group name whatever
\* their names are.
C14_GroupFromTeam ==
    /\ \A i \in 1..Len(strategyCalls) :
         /\ strategyCalls[i].group.name = GroupNames[strategyCalls[i].team._id]
         /\ strategyCalls[i].group.description = strategyCalls[i].team.name
    /\ \A i, j \in 1..Len(strategyCalls) :
         strategyCalls[i].team._id = strategyCalls[j].team._id
         => strategyCalls[i].group.name = strategyCalls[j].group.name

C14_Witness ==
    /\ Len(strategyCalls) = 2
    /\ strategyCalls[1].method = "addUserToGroup"
    /\ strategyCalls[2].method = "removeUserFromGroup"
    /\ strategyCalls[1].team = [_id |-> 10, name |-> "Team A"]
    /\ strategyCalls[2].team = [_id |-> 10, name |-> "schulcloud-1"]
    /\ strategyCalls[1].group.name = strategyCalls[2].group.name

----------------------------------------------------------------------------
\* WOPI before-hooks (part_000:16-79).  files is the file collection read by
\* FileModel.findOne; wopi is the latest request with the outcome of its
\* before-hook chain.  A stored lockId of 0 stands for an unset lockId.

FileIds == {"f1", "f2"}
LockIds == {0, 1, 2}
NoFile == [exists |-> FALSE, lockId |-> 0]
FileStates == {NoFile} \cup [exists : {TRUE}, lockId : LockIds]

WopiMethods == {"find", "get", "create", "update", "patch", "remove"}
EditingMethods == {"create", "update", "patch", "remove"}
\* access token: none given, one that authenticate('jwt') accepts, one it
\* refuses.
Tokens == {"none", "valid", "invalid"}
\* x-wopi-override header; "" stands for a header that is absent or empty.
Overrides == {"", "LOCK", "PUT", "REFRESH_LOCK", "UNLOCK", "GET_LOCK", "lock"}
NoLockHeader == [present |-> FALSE, val |-> ""]
LockHeaders == {NoLockHeader} \cup [present : {TRUE}, val : {"", "1", "2"}]

concerningActions == {"LOCK", "PUT", "REFRESH_LOCK", "UNLOCK"}

WopiRequest(method, token, override, lock, fileId) ==
    [method |-> method, token |-> token, override |-> override, lock |-> lock,
     fileId |-> fileId, wopiAction |-> "", error |-> "", lookups |-> 0]

wopiAuthentication(h) ==
    IF h.token = "none" THEN [h EXCEPT !.error = "Error"]
    ELSE IF h.token = "invalid" THEN [h EXCEPT !.error = "NotAuthenticated"]
    ELSE h

retrieveWopiOverrideHeader(h) ==
    IF h.override = "" THEN [h EXCEPT !.error = "BadRequest"]
    ELSE [h EXCEPT !.wopiAction = h.override]

\* (file.lockId || "").toString()
FileLockId(file) == IF file.lockId = 0 THEN "" ELSE TemplateString(file.lockId)

CheckLockHeaderNoCompare(h, fs) ==
    IF h.wopiAction \notin concerningActions THEN h
    ELSE IF ~fs[h.fileId].exists
         THEN [h EXCEPT !.lookups = @ + 1, !.error = "NotFound"]
         ELSE [h EXCEPT !.lookups = @ + 1]

checkLockHeader(h, fs) ==
    IF h.wopiAction \notin concerningActions THEN h
    ELSE LET file == fs[h.fileId]
             found == [h EXCEPT !.lookups = @ + 1]
         IN  IF ~file.exists THEN [found EXCEPT !.error = "NotFound"]
             ELSE IF /\ FileLockId(file) # ""
                     /\ ~(h.lock.present /\ h.lock.val = FileLockId(file))
                  THEN [found EXCEPT !.error = "Conflict"]
                  ELSE found

\* exports.before: all, then the hooks of the method.
WopiBefore(h, fs) ==
    LET a == wopiAuthentication(h)
        b == retrieveWopiOverrideHeader(a)
    IN  IF a.error # "" \/ h.method \notin EditingMethods THEN a
        ELSE IF b.error # "" THEN b
        ELSE checkLockHeader(b, fs)

InitWopi ==
    /\ clients = {}
    /\ handles = <<>>
    /\ calls = <<>>
    /\ strategyCalls = <<>>
    /\ store = <<>>
    /\ hook = NoRequest
    /\ files \in [FileIds -> FileStates]
    /\ wopi = NoRequest

WopiRequestArrives(method, token, override, lock, fileId) ==
    /\ wopi' = WopiBefore(WopiRequest(method, token, override, lock, fileId), files)
    /\ UNCHANGED <<ldapVars, strategyCalls, files, store, hook>>

NextWopi ==
    \E method \in WopiMethods, token \in Tokens, override \in Overrides,
       lock \in LockHeaders, fileId \in FileIds :
        WopiRequestArrives(method, token, override, lock, fileId)

SpecWopi == InitWopi /\ [][NextWopi]_vars

LockText == (1 :> "1") @@ (2 :> "2")

WopiLockHeld == files[wopi.fileId].exists /\ files[wopi.fileId].lockId # 0

WopiLockMatches ==
    /\ WopiLockHeld
    /\ wopi.lock.present
    /\ wopi.lock.val = LockText[files[wopi.fileId].lockId]

WopiLockRule ==
    /\ wopi.override \in concerningActions
       => /\ ~files[wopi.fileId].exists => wopi.error = "NotFound"
          /\ (WopiLockHeld /\ ~WopiLockMatches) => wopi.error = "Conflict"
          /\ (files[wopi.fileId].exists /\ (~WopiLockHeld \/ WopiLockMatches))
               => wopi.error = ""
    /\ (wopi.override # "" /\ wopi.override \notin concerningActions)
       => wopi.error = "" /\ wopi.lookups = 0

\* C18 as stated: every create/update/patch/remove request with a locking
\* action is answered by the lock rule (NotFound, Conflict or pass), and
\* every request with another action passes without a file lookup.
C18_LockRuleEveryRequest ==
    (wopi.method \in EditingMethods) => WopiLockRule

\* C18 amended: the lock rule answers the requests that carry an access
\* token which authentication accepts; a request without a token, or with a
\* refused one, is rejected before any header is read or file looked up.
C18_LockRuleAuthenticated ==
    /\ (wopi.method \in EditingMethods /\ wopi.token = "valid") => WopiLockRule
    /\ (wopi.method # "none" /\ wopi.token # "valid")
       => wopi.error \in {"Error", "NotAuthenticated"} /\ wopi.lookups = 0

C18_Witness ==
    /\ wopi.method = "update"
    /\ wopi.token = "valid"
    /\ wopi.override = "PUT"
    /\ files[wopi.fileId] = [exists |-> TRUE, lockId |-> 1]
    /\ wopi.lock = [present |-> TRUE, val |-> "2"]
    /\ wopi.error = "Conflict"
    /\ wopi.lookups = 1

----------------------------------------------------------------------------
\* Submission before-hooks (submissions.js:26-184).  store is the submission
\* collection behind app.service('/submissions'); hook is the latest request
\* with the outcome of its before-hook chain.  Requests are those that
\* passed authenticate('jwt'): hook.params.account.userId is the user.

MaxSubmissions == 2

Students == {"u1", "u2"}
Teacher == "t"
Requesters == Students \cup {Teacher}

\* The homework collection behind app.service('/homework').
Homework ==
    [hw \in {"hw1", "hw2"} |->
        IF hw = "hw1"
        THEN [teacherId |-> Teacher, teamSubmissions |-> TRUE, maxCoWorkers |-> 2]
        ELSE [teacherId |-> Teacher, teamSubmissions |-> FALSE, maxCoWorkers |-> 0]]
HomeworkIds == DOMAIN Homework

Range(seq) == {seq[i] : i \in 1..Len(seq)}

\* hook.data.teamMembers: absent, a single id that is not an array, an array.
Absent == [kind |-> "absent", val |-> <<>>]
Scalar(x) == [kind |-> "scalar", val |-> <<x>>]
Arr(xs) == [kind |-> "array", val |-> xs]
TeamMemberInputs ==
    {Absent, Scalar("u2"), Arr(<<>>), Arr(<<"u1", "u2">>),
     Arr(<<"u1", "u2", "u3">>)}

\* hook.data.grade: absent, the integer 2, the string "1";
\* hook.data.gradeComment: absent, the string "ok".
NoGrade == <<"absent", "absent">>
GradeInputs == {<<"int", "absent">>, <<"string", "absent">>, <<"absent", "string">>}

Data(homeworkId, teamMembers, g, studentId) ==
    [homeworkId |-> homeworkId, teamMembers |-> teamMembers,
     grade |-> g[1], gradeComment |-> g[2], studentId |-> studentId]

\* JavaScript truthiness of the values above.
Truthy(tm) == tm.kind # "absent"
Grading(d) == d.grade # "absent" \/ d.gradeComment # "absent"

\* teamMembers.length: of the array, or of the string "u2".
Length(tm) == IF tm.kind = "scalar" THEN Len(tm.val[1]) ELSE Len(tm.val)

Request(method, id, user, data) ==
    [method |-> method, id |-> id, user |-> user, data |-> data,
     given |-> data.teamMembers,
     error |-> "", finds |-> 0, normalized |-> FALSE, assigned |-> FALSE]

setCoWorkers(h) ==
    IF ~(Truthy(h.data.teamMembers) \/ Grading(h.data))
    THEN [h EXCEPT !.data.teamMembers = Arr(<<h.user>>)]
    ELSE h

NormalizeCoWorkersOwnerSelf(h) ==
    IF Grading(h.data) THEN h
    ELSE LET tm == IF h.data.teamMembers.kind = "array" THEN h.data.teamMembers
                   ELSE Arr(h.data.teamMembers.val)
         IN  IF Len(tm.val) = 0
             THEN [h EXCEPT !.data.teamMembers = Arr(<<h.user>>), !.normalized = TRUE]
             ELSE [h EXCEPT !.data.teamMembers = tm, !.normalized = TRUE,
                            !.assigned = TRUE, !.data.studentId = h.user]

normalizeCoWorkers(h) ==
    IF Grading(h.data) THEN h
    ELSE LET tm == IF h.data.teamMembers.kind = "array" THEN h.data.teamMembers
                   ELSE Arr(h.data.teamMembers.val)
         IN  IF Len(tm.val) = 0
             THEN [h EXCEPT !.data.teamMembers = Arr(<<h.user>>), !.normalized = TRUE]
             ELSE [h EXCEPT !.data.teamMembers = tm, !.normalized = TRUE,
                            !.assigned = TRUE,
                            !.data.studentId =
                                IF h.user \in Range(tm.val) THEN h.user ELSE tm.val[1]]

\* submissionService.find({query: {homeworkId: hook.data.homeworkId}}): what
\* a query for an undefined homeworkId matches is left to the database layer.
Find(h, st, undefinedMatchesAll) ==
    {i \in 1..Len(st) :
        /\ st[i].exists
        /\ IF h.data.homeworkId = "" THEN undefinedMatchesAll
           ELSE st[i].homeworkId = h.data.homeworkId}

teamMemberHasAlreadySubmitted(found, st, newCoWorkers) ==
    \E i \in found : \E m \in newCoWorkers :
        m \in Range(st[i].teamMembers) \/ st[i].studentId = m

preventMultipleSubmissions(h, st, undefinedMatchesAll) ==
    IF Grading(h.data) THEN h
    ELSE LET found == Find(h, st, undefinedMatchesAll)
             searched == [h EXCEPT !.finds = @ + 1]
             submissionsForMe ==
                 {i \in found : /\ h.user \in Range(st[i].teamMembers)
                                /\ st[i].studentId # h.user}
             members == Range(h.data.teamMembers.val)
             newCoWorkers ==
                 IF h.id # 0 THEN members \ Range(st[h.id].teamMembers)
                 ELSE members
         IN  IF h.method = "create" /\ submissionsForMe # {}
             THEN [searched EXCEPT !.error = "Conflict"]
             ELSE IF /\ Truthy(h.data.teamMembers)
                     /\ teamMemberHasAlreadySubmitted(found, st, newCoWorkers)
                  THEN [searched EXCEPT !.error = "Conflict"]
                  ELSE searched

maxCoWorkers(h) ==
    IF h.data.homeworkId # "" /\ Truthy(h.data.teamMembers)
    THEN LET homework == Homework[h.data.homeworkId]
             length == Length(h.data.teamMembers)
         IN  IF length > 1 /\ ~homework.teamSubmissions
             THEN [h EXCEPT !.error = "Conflict"]
             ELSE IF /\ homework.teamSubmissions
                     /\ homework.maxCoWorkers # 0
                     /\ homework.maxCoWorkers >= 1
                     /\ length > homework.maxCoWorkers
                  THEN [h EXCEPT !.error = "Conflict"]
                  ELSE h
    ELSE h

\* homeworkService.get(undefined) finds no homework.
canGrade(h) ==
    IF h.data.grade = "int" \/ h.data.gradeComment = "string"
    THEN IF h.data.homeworkId = "" THEN [h EXCEPT !.error = "NotFound"]
         ELSE IF Homework[h.data.homeworkId].teacherId # h.user
              THEN [h EXCEPT !.error = "Forbidden"]
              ELSE h
    ELSE h

IsCoWorkerAnyone(h, st) ==
    IF ~(h.id \in 1..Len(st) /\ st[h.id].exists)
    THEN [h EXCEPT !.error = "NotFound"]
    ELSE h

\* submissionService.get(hook.id) of a submission that does not exist fails.
isCoWorker(h, st) ==
    IF ~(h.id \in 1..Len(st) /\ st[h.id].exists)
    THEN [h EXCEPT !.error = "NotFound"]
    ELSE IF \/ h.user \in Range(st[h.id].teamMembers)
            \/ st[h.id].studentId = h.user
         THEN h
         ELSE [h EXCEPT !.error = "Forbidden"]

\* A hook runs only if no earlier hook of the chain has failed.
Then(h, next) == IF h.error # "" THEN h ELSE next

StudentChain(h0, st, undefinedMatchesAll) ==
    LET h1 == normalizeCoWorkers(h0)
        h2 == preventMultipleSubmissions(h1, st, undefinedMatchesAll)
        h3 == Then(h2, maxCoWorkers(h2))
    IN  Then(h0, Then(h3, canGrade(h3)))

\* exports.before
Before(h, st, undefinedMatchesAll) ==
    IF h.method = "create" THEN StudentChain(setCoWorkers(h), st, undefinedMatchesAll)
    ELSE IF h.method = "remove" THEN isCoWorker(h, st)
    ELSE StudentChain(isCoWorker(h, st), st, undefinedMatchesAll)

\* What the service writes once the chain has passed.
Stored(d) ==
    [exists |-> TRUE, homeworkId |-> d.homeworkId, studentId |-> d.studentId,
     teamMembers |-> d.teamMembers.val]
Removed == [exists |-> FALSE, homeworkId |-> "", studentId |-> "", teamMembers |-> <<>>]
Merged(old, d) ==
    [exists |-> TRUE,
     homeworkId |-> IF d.homeworkId # "" THEN d.homeworkId ELSE old.homeworkId,
     studentId |-> IF d.studentId # "" THEN d.studentId ELSE old.studentId,
     teamMembers |-> IF Truthy(d.teamMembers) THEN d.teamMembers.val
                     ELSE old.teamMembers]

Create(user, data) ==
    /\ Len(store) < MaxSubmissions
    /\ hook' = Before(Request("create", 0, user, data), store, FALSE)
    /\ store' = IF hook'.error = "" THEN Append(store, Stored(hook'.data)) ELSE store
    /\ UNCHANGED <<ldapVars, strategyCalls, files, wopi>>

Update(id, user, data) ==
    /\ hook' = Before(Request("update", id, user, data), store, FALSE)
    /\ store' = IF hook'.error = ""
                THEN [store EXCEPT ![id] = Stored(hook'.data)] ELSE store
    /\ UNCHANGED <<ldapVars, strategyCalls, files, wopi>>

Patch(id, user, data, undefinedMatchesAll) ==
    /\ hook' = Before(Request("patch", id, user, data), store, undefinedMatchesAll)
    /\ store' = IF hook'.error = ""
                THEN [store EXCEPT ![id] = Merged(@, hook'.data)] ELSE store
    /\ UNCHANGED <<ldapVars, strategyCalls, files, wopi>>

Remove(id, user) ==
    /\ hook' = Before(Request("remove", id, user, Data("", Absent, NoGrade, "")),
                      store, FALSE)
    /\ store' = IF hook'.error = "" THEN [store EXCEPT ![id] = Removed] ELSE store
    /\ UNCHANGED <<ldapVars, strategyCalls, files, wopi>>

SubmissionIds == 1..MaxSubmissions

\* Request bodies: submissions (no grade, no gradeComment) are sent by
\* students; grading bodies are sent by anyone.
GradingTeams == {Absent, Arr(<<"u1", "u2">>)}

NextSubs ==
    \/ \E user \in Students, hw \in HomeworkIds, tm \in TeamMemberInputs,
          sid \in Students :
         Create(user, Data(hw, tm, NoGrade, sid))
    \/ \E user \in Requesters, hw \in HomeworkIds, tm \in GradingTeams,
          g \in GradeInputs :
         Create(user, Data(hw, tm, g, "u1"))
    \/ \E id \in SubmissionIds, user \in Students, hw \in HomeworkIds,
          tm \in TeamMemberInputs :
         Update(id, user, Data(hw, tm, NoGrade, user))
    \/ \E id \in SubmissionIds, user \in Requesters, hw \in HomeworkIds :
         Update(id, user, Data(hw, Absent, <<"int", "absent">>, "u1"))
    \/ \E id \in SubmissionIds, user \in Students, hw \in HomeworkIds \cup {""},
          tm \in TeamMemberInputs, all \in BOOLEAN :
         /\ (hw # "" => ~all)
         /\ Patch(id, user, Data(hw, tm, NoGrade, ""), all)
    \/ \E id \in SubmissionIds, user \in Requesters, hw \in {"hw1", ""},
          g \in GradeInputs :
         Patch(id, user, Data(hw, Absent, g, ""), FALSE)
    \/ \E id \in SubmissionIds, user \in Requesters : Remove(id, user)

SpecSubs == Init /\ [][NextSubs]_vars

WritingMethods == {"create", "update", "patch"}

Members(sub) == Range(sub.teamMembers) \cup {sub.studentId}

\* C15: no user is a team member or owner of two different submissions of
\* the same homework.
C15_OneSubmissionPerUser ==
    \A i, j \in 1..Len(store) :
        ( /\ i # j
          /\ store[i].exists /\ store[j].exists
          /\ store[i].homeworkId = store[j].homeworkId )
        => Members(store[i]) \cap Members(store[j]) = {}

\* The submission a request with an id is about.
Target(st, h) == st[h.id]
HasTarget(st, h) == h.id \in 1..Len(st) /\ st[h.id].exists

\* The homework a request refers to: the one it names, else the homework of
\* the submission it patches.
Referenced(st, h) ==
    IF h.data.homeworkId # "" THEN h.data.homeworkId ELSE Target(st, h).homeworkId

Refers(st, h) ==
    /\ h.method \in WritingMethods
    /\ h.method = "create" \/ HasTarget(st, h)

\* C16: a create, update or patch request carrying a grade or a gradeComment
\* passes only for the teacher of the referenced homework and is rejected
\* with Forbidden for anyone else.
C16_GradingOnlyByTeacher ==
    [][( /\ Refers(store, hook')
         /\ Grading(hook'.data)
         /\ Homework[Referenced(store, hook')].teacherId # hook'.user )
       => hook'.error = "Forbidden"]_vars

\* C17: no create, update or patch request passes with a teamMembers list
\* of more than one member when the homework allows no team submissions, nor
\* with a list longer than maxCoWorkers when it does and maxCoWorkers >= 1.
C17_TeamLimits ==
    [][( /\ Refers(store, hook')
         /\ hook'.error = ""
         /\ hook'.data.teamMembers.kind = "array" )
       => LET homework == Homework[Referenced(store, hook')]
              length == Len(hook'.data.teamMembers.val)
          IN  /\ ~homework.teamSubmissions => length <= 1
              /\ (homework.teamSubmissions /\ homework.maxCoWorkers >= 1)
                   => length <= homework.maxCoWorkers]_vars

IsMemberOrOwner(st, h) ==
    \/ h.user \in Range(Target(st, h).teamMembers)
    \/ Target(st, h).studentId = h.user

\* C19: an update, patch or remove request passes only if the user is a
\* team member or the owner of the stored submission; anyone else is
\* rejected with Forbidden, with the request data as it was sent, no query
\* of other submissions made and the collection unchanged.
C19_OnlyCoWorkersModify ==
    [][( /\ hook'.method \in {"update", "patch", "remove"}
         /\ HasTarget(store, hook') )
       => /\ hook'.error = "" => IsMemberOrOwner(store, hook')
          /\ ~IsMemberOrOwner(store, hook')
               => /\ hook'.error = "Forbidden"
                  /\ hook'.data.teamMembers = hook'.given
                  /\ ~hook'.normalized /\ ~hook'.assigned
                  /\ hook'.finds = 0
                  /\ store' = store]_vars

C19_Witness ==
    /\ hook.method = "patch"
    /\ hook.user = "u2"
    /\ hook.error = "Forbidden"
    /\ hook.given = Arr(<<"u1", "u2">>)
    /\ HasTarget(store, hook)
    /\ Target(store, hook).teamMembers = <<"u1">>
    /\ Target(store, hook).studentId = "u1"

\* C20: once setCoWorkers/normalizeCoWorkers have run on a request without
\* grade and gradeComment, teamMembers is a non-empty array (the current
\* user alone when none was given), and a studentId assigned by the hooks is
\* a member of it: the current user if listed, else the first member.
C20_NormalizedTeam ==
    /\ (hook.method = "create" /\ ~Grading(hook.data)) => hook.normalized
    /\ (hook.method \in WritingMethods /\ ~Grading(hook.data) /\ hook.normalized)
       => /\ hook.data.teamMembers.kind = "array"
          /\ Len(hook.data.teamMembers.val) >= 1
          /\ Length(hook.given) = 0 => hook.data.teamMembers.val = <<hook.user>>
          /\ hook.assigned
               => /\ hook.data.studentId \in Range(hook.data.teamMembers.val)
                  /\ hook.data.studentId =
                       IF hook.user \in Range(hook.data.teamMembers.val)
                       THEN hook.user
                       ELSE hook.data.teamMembers.val[1]

C20_Witness ==
    /\ hook.method = "patch"
    /\ hook.user = "u1"
    /\ hook.error = ""
    /\ hook.given = Scalar("u2")
    /\ hook.data.teamMembers = Arr(<<"u2">>)
    /\ hook.assigned
    /\ hook.data.studentId = "u2"

====
